---- MODULE Spec2Model ----
(***************************************************************************)
(* Model of translate.go: the Token of the Microsoft Translator client,    *)
(* its refresh gate (RefreshIfNeeded) and the two translation calls, run   *)
(* by several callers that share one Token.                                *)
(*                                                                         *)
(* Time: the clock `now` counts whole seconds.  A time.Duration is a       *)
(* signed integer of IntBits bits counting ticks, Second ticks to the      *)
(* second.  The program has 64 bits and 10^9 ticks; the model keeps the    *)
(* shape (a parseable expires_in can overflow the multiplication of        *)
(* line 84) at a width TLC can enumerate.                                  *)
(***************************************************************************)
EXTENDS Integers, Sequences, FiniteSets

VARIABLES
    token,        \* the shared *Token: AccessToken, ExpiresIn, Timestamp, expiresInDuration
    reloadMutex,  \* token.reloadMutex: 0 when unlocked, else the caller holding it
    now,          \* the wall clock, in seconds
    pc,           \* pc[p]: where caller p stands
    op,           \* op[p]: the call caller p is in, and its arguments
    body,         \* body[p]: respBody of line 69, held between line 69 and line 77
    net,          \* history: HTTP requests p's call has sent so far (auth POSTs, API requests)
    saved,        \* history: the token's fields when the lock was last taken or released
    prov,         \* history: which acquisition each token field comes from
    last          \* history: the call that returned last, until the next call is entered

vars == <<token, reloadMutex, now, pc, op, body, net, saved, prov, last>>

---------------------------------------------------------------------------
(* Bounds *)

NumCallers == 2
MaxClock == 3
IntBits == 6

Second == 4

Callers == 1..NumCallers

MaxInt == 2^(IntBits - 1) - 1
MinInt == -(2^(IntBits - 1))

\* the zero time.Time of a Token that was never stamped
ZeroTime == -1

Min(a, b) == IF a < b THEN a ELSE b

---------------------------------------------------------------------------
(* Integer conversions *)

\* Go's wrapping signed multiplication/conversion at the width of time.Duration
Wrap(x) == LET m == x % (2^IntBits) IN IF m > MaxInt THEN m - 2^IntBits ELSE m

Digits == <<"0", "1", "2", "3", "4", "5", "6", "7", "8", "9">>

IsDigit(c) == \E i \in 1..10 : Digits[i] = c

DigitVal(c) == (CHOOSE i \in 1..10 : Digits[i] = c) - 1

\* strconv.ParseUint(s, 10, 64) up to `cutoff`: digit by digit, with syntax and
\* range errors.  acc is the value read so far.
RECURSIVE ParseDigits(_, _, _)
ParseDigits(s, acc, cutoff) ==
    IF s = <<>> THEN [ok |-> TRUE, val |-> acc]
    ELSE IF ~IsDigit(Head(s)) THEN [ok |-> FALSE, val |-> 0]
    ELSE LET v == acc * 10 + DigitVal(Head(s))
         IN IF v > cutoff THEN [ok |-> FALSE, val |-> cutoff]
            ELSE ParseDigits(Tail(s), v, cutoff)

\* strconv.ParseInt(s, 10, 64): optional sign, at least one digit, range check
ParseInt(s) ==
    IF s = <<>> THEN [ok |-> FALSE, val |-> 0]
    ELSE LET neg == Head(s) = "-"
             signed == Head(s) \in {"-", "+"}
             rest == IF signed THEN Tail(s) ELSE s
             un == ParseDigits(rest, 0, IF neg THEN -MinInt ELSE MaxInt)
         IN IF rest = <<>> THEN [ok |-> FALSE, val |-> 0]
            ELSE IF ~un.ok THEN un
            ELSE [ok |-> TRUE, val |-> IF neg THEN -un.val ELSE un.val]

\* time.Duration(expiresIn) * time.Second (line 84)
ToDuration(expiresIn) == Wrap(expiresIn * Second)

\* time.Since(ts): saturates at the largest Duration
Since(ts, clock) ==
    IF ts = ZeroTime THEN MaxInt ELSE Min((clock - ts) * Second, MaxInt)

\* Token.IsValid (line 46)
IsValid(t, clock) ==
    t.expiresInDuration > 0 /\ Since(t.Timestamp, clock) < t.expiresInDuration

---------------------------------------------------------------------------
(* Wire formats: what encoding/json and encoding/xml make of the bodies the *)
(* servers of this model send                                              *)

NoJson == [valid |-> FALSE, null |-> FALSE, hasAccess |-> FALSE, access |-> "",
           hasExpires |-> FALSE, expires |-> <<>>]

JsonObject(hasA, a, hasE, e) ==
    [valid |-> TRUE, null |-> FALSE, hasAccess |-> hasA, access |-> a,
     hasExpires |-> hasE, expires |-> e]

\* The auth bodies of the model.  hasExpires says that the body carries an
\* expires_in that is a JSON string: a JSON number does not fit the string
\* field ExpiresIn, json.Unmarshal skips it and goes on with the other fields.
AuthBodies ==
    { "{\"access_token\":\"A\",\"expires_in\":\"2\"}",
      "{\"access_token\":\"B\",\"expires_in\":\"1\"}",
      "{\"access_token\":\"B\",\"expires_in\":\"+2\"}",
      "{\"access_token\":\"A\",\"expires_in\":\"17\"}",
      "{\"access_token\":\"B\",\"expires_in\":\"-1\"}",
      "{\"access_token\":\"B\",\"expires_in\":\"soon\"}",
      "{\"access_token\":\"B\",\"expires_in\":2}",
      "{}",
      "null",
      "<html>Service Unavailable</html>" }

JsonDecode(raw) ==
    CASE raw = "{\"access_token\":\"A\",\"expires_in\":\"2\"}" ->
            JsonObject(TRUE, "A", TRUE, <<"2">>)
      [] raw = "{\"access_token\":\"B\",\"expires_in\":\"1\"}" ->
            JsonObject(TRUE, "B", TRUE, <<"1">>)
      [] raw = "{\"access_token\":\"B\",\"expires_in\":\"+2\"}" ->
            JsonObject(TRUE, "B", TRUE, <<"+", "2">>)
      [] raw = "{\"access_token\":\"A\",\"expires_in\":\"17\"}" ->
            JsonObject(TRUE, "A", TRUE, <<"1", "7">>)
      [] raw = "{\"access_token\":\"B\",\"expires_in\":\"-1\"}" ->
            JsonObject(TRUE, "B", TRUE, <<"-", "1">>)
      [] raw = "{\"access_token\":\"B\",\"expires_in\":\"soon\"}" ->
            JsonObject(TRUE, "B", TRUE, <<"s", "o", "o", "n">>)
      [] raw = "{\"access_token\":\"B\",\"expires_in\":2}" ->
            JsonObject(TRUE, "B", FALSE, <<>>)
      [] raw = "{}" -> JsonObject(FALSE, "", FALSE, <<>>)
      [] raw = "null" -> [NoJson EXCEPT !.valid = TRUE, !.null = TRUE]
      [] OTHER -> NoJson

\* json.Unmarshal(respBody, &token) (line 77): the fields the body carries are
\* written, the others keep their values; a body that is no JSON writes nothing.
\* (The JSON value null sets the pointer itself to nil: see R_Unmarshal.)
Unmarshal(t, raw) ==
    LET j == JsonDecode(raw)
    IN [t EXCEPT !.AccessToken = IF j.valid /\ j.hasAccess THEN j.access ELSE @,
                 !.ExpiresIn = IF j.valid /\ j.hasExpires THEN j.expires ELSE @]

NoXml == [ok |-> FALSE, root |-> "", text |-> "", children |-> <<>>]

Elem(name, text) == [name |-> name, text |-> text]

\* The element tree encoding/xml reads from a body: the root element's name, its
\* own character data and its child elements (a TranslateArrayResponse child is
\* given by its TranslatedText).  In the bodies, <A> stands for
\* <ArrayOfTranslateArrayResponse> and <R>t</R> for
\* <TranslateArrayResponse><TranslatedText>t</TranslatedText></TranslateArrayResponse>.
XmlParse(raw) ==
    CASE raw = "<string>bonjour</string>" ->
            [ok |-> TRUE, root |-> "string", text |-> "bonjour", children |-> <<>>]
      [] raw = "<html><body>TranslateApiException</body></html>" ->
            [ok |-> TRUE, root |-> "html", text |-> "",
             children |-> <<Elem("body", "TranslateApiException")>>]
      [] raw = "<A/>" ->
            [ok |-> TRUE, root |-> "ArrayOfTranslateArrayResponse", text |-> "",
             children |-> <<>>]
      [] raw = "<A><R>bonjour</R></A>" ->
            [ok |-> TRUE, root |-> "ArrayOfTranslateArrayResponse", text |-> "",
             children |-> <<Elem("TranslateArrayResponse", "bonjour")>>]
      [] raw = "<A><R>bonjour</R><R>monde</R></A>" ->
            [ok |-> TRUE, root |-> "ArrayOfTranslateArrayResponse", text |-> "",
             children |-> <<Elem("TranslateArrayResponse", "bonjour"),
                            Elem("TranslateArrayResponse", "monde")>>]
      [] raw = "<A><R>monde</R><Note>x</Note><R>bonjour</R></A>" ->
            [ok |-> TRUE, root |-> "ArrayOfTranslateArrayResponse", text |-> "",
             children |-> <<Elem("TranslateArrayResponse", "monde"),
                            Elem("Note", "x"),
                            Elem("TranslateArrayResponse", "bonjour")>>]
      [] OTHER -> NoXml

\* xml.Unmarshal(bytes, &result) with result a string (line 112): the character
\* data of the root element, whatever its name
XmlString(raw) ==
    LET x == XmlParse(raw) IN [ok |-> x.ok, str |-> IF x.ok THEN x.text ELSE ""]

\* a decoder that puts each element before the ones already read
RECURSIVE TranslatedTextsPrepended(_)
TranslatedTextsPrepended(children) ==
    IF children = <<>> THEN <<>>
    ELSE IF Head(children).name = "TranslateArrayResponse"
         THEN TranslatedTextsPrepended(Tail(children)) \o <<Head(children).text>>
         ELSE TranslatedTextsPrepended(Tail(children))

\* the TranslatedText of the children named TranslateArrayResponse, in document
\* order (the loop of lines 194-196 over response.Responses)
RECURSIVE TranslatedTexts(_)
TranslatedTexts(children) ==
    IF children = <<>> THEN <<>>
    ELSE IF Head(children).name = "TranslateArrayResponse"
         THEN <<Head(children).text>> \o TranslatedTexts(Tail(children))
         ELSE TranslatedTexts(Tail(children))

\* xml.Unmarshal(respBody, &response) (line 189): the root must be
\* ArrayOfTranslateArrayResponse (XMLName of Response)
XmlResponse(raw) ==
    LET x == XmlParse(raw)
        good == x.ok /\ x.root = "ArrayOfTranslateArrayResponse"
    IN [ok |-> good, list |-> IF good THEN TranslatedTexts(x.children) ELSE <<>>]

\* msStrings (lines 151-154) as marshalled into Texts>string by line 156: one
\* string element per text, in order, each with the Arrays namespace
RECURSIVE MsStrings(_)
MsStrings(texts) ==
    IF texts = <<>> THEN <<>>
    ELSE <<[String |-> Head(texts),
            StringXMLNS |-> "http://schemas.microsoft.com/2003/10/Serialization/Arrays"]>>
         \o MsStrings(Tail(texts))

---------------------------------------------------------------------------
(* Values *)

\* &Token{config: c} (line 39): every field at its zero value
ZeroToken == [AccessToken |-> "", ExpiresIn |-> <<>>, Timestamp |-> ZeroTime,
              expiresInDuration |-> 0]

Err(kind, status, raw) == [kind |-> kind, status |-> status, body |-> raw]

ErrNil == Err("nil", 0, "")

\* no return value (yet)
ErrNone == Err("none", 0, "")

Ret(err, str, list) == [err |-> err, str |-> str, list |-> list]

Response(status, raw) ==
    [transport |-> FALSE, readErr |-> FALSE, status |-> status, body |-> raw]

\* client.PostForm / client.Do returned an error and a nil response
TransportFailure == [Response(0, "") EXCEPT !.transport = TRUE]

\* ioutil.ReadAll returned an error after `raw`
ReadFailure(status, raw) == [Response(status, raw) EXCEPT !.readErr = TRUE]

AuthResponses ==
    {TransportFailure, ReadFailure(200, ""), Response(401, "denied"),
     Response(500, "{\"access_token\":\"A\",\"expires_in\":\"2\"}")}
    \cup {Response(200, b) : b \in AuthBodies}

\* the answers of the auth endpoint to callers that share the token
SharedAuthResponses ==
    {Response(401, "denied"),
     Response(200, "{\"access_token\":\"A\",\"expires_in\":\"2\"}"),
     Response(200, "{\"access_token\":\"B\",\"expires_in\":\"soon\"}")}

TranslateResponses ==
    {TransportFailure, ReadFailure(200, ""),
     Response(200, "<string>bonjour</string>"),
     Response(200, ""),
     Response(400, "<html><body>TranslateApiException</body></html>"),
     Response(500, "Bad Gateway")}

TranslateArrayResponses ==
    {TransportFailure, ReadFailure(200, "<A><R>bonjour</R>"),
     Response(200, "<A/>"),
     Response(200, "<A><R>bonjour</R></A>"),
     Response(200, "<A><R>bonjour</R><R>monde</R></A>"),
     Response(200, "<A><R>monde</R><Note>x</Note><R>bonjour</R></A>"),
     Response(200, "<string>bonjour</string>"),
     Response(200, "Bad Gateway"),
     Response(400, "<html><body>TranslateApiException</body></html>")}

Call(kind, text, to, textsNil, texts) ==
    [kind |-> kind, text |-> text, to |-> to, textsNil |-> textsNil, texts |-> texts]

NoCall == Call("none", "", "", TRUE, <<>>)

\* the calls of a caller that has the token to itself
Calls ==
    {Call("RefreshIfNeeded", "", "", TRUE, <<>>)}
    \cup {Call("Translate", "hello", "fr", TRUE, <<>>),
          Call("Translate", "", "fr", TRUE, <<>>),
          Call("Translate", "hello", "", TRUE, <<>>)}
    \cup {Call("TranslateArray", "", "fr", TRUE, <<>>),
          Call("TranslateArray", "", "fr", FALSE, <<>>),
          Call("TranslateArray", "", "fr", FALSE, <<"hello">>),
          Call("TranslateArray", "", "fr", FALSE, <<"hello", "world">>),
          Call("TranslateArray", "", "", FALSE, <<"hello">>)}

\* the calls of callers that share the token
SharedCalls ==
    {Call("RefreshIfNeeded", "", "", TRUE, <<>>),
     Call("Translate", "hello", "fr", TRUE, <<>>)}

NoNet == [auth |-> 0, api |-> 0]

\* an exchange with the translation endpoint: the texts sent (TranslateArray), the
\* status and the body of the answer (status 0: no answer)
Wire(sent, r) == [sent |-> sent, status |-> r.status, resp |-> r.body]

NoWire == [sent |-> <<>>, status |-> 0, resp |-> ""]

NoLast == [caller |-> 0, op |-> NoCall, ret |-> Ret(ErrNone, "", <<>>),
           gateErr |-> ErrNone, net |-> NoNet, wire |-> NoWire]

ZeroProv == [AccessToken |-> "zero", ExpiresIn |-> "zero", Timestamp |-> "zero",
             expiresInDuration |-> "zero"]

\* the acquisition under way has returned: nil makes what it wrote the fields of
\* the latest successful acquisition and what it did not write older than that; an
\* error leaves what it wrote as fields no successful acquisition wrote
Settle(pv, success) ==
    [f \in DOMAIN pv |->
        IF pv[f] = "pending" THEN (IF success THEN "ok" ELSE "other")
        ELSE IF pv[f] = "ok" /\ success THEN "other"
        ELSE pv[f]]

---------------------------------------------------------------------------
(* State *)

Init ==
    /\ token = ZeroToken
    /\ reloadMutex = 0
    /\ now = 0
    /\ pc = [p \in Callers |-> "idle"]
    /\ op = [p \in Callers |-> NoCall]
    /\ body = [p \in Callers |-> ""]
    /\ net = [p \in Callers |-> NoNet]
    /\ saved = ZeroToken
    /\ prov = ZeroProv
    /\ last = NoLast

\* time passes
Tick ==
    /\ now < MaxClock
    /\ now' = now + 1
    /\ UNCHANGED <<token, reloadMutex, pc, op, body, net, saved, prov, last>>

\* caller p's call returns r to its caller, RefreshIfNeeded having returned g
\* inside it, with traffic n and exchange w with the translation endpoint
Return(p, g, r, n, w) ==
    /\ pc' = [pc EXCEPT ![p] = "idle"]
    /\ op' = [op EXCEPT ![p] = NoCall]
    /\ net' = [net EXCEPT ![p] = NoNet]
    /\ last' = [caller |-> p, op |-> op[p], ret |-> r, gateErr |-> g, net |-> n,
                wire |-> w]

\* What follows RefreshIfNeeded's return of e in caller p, n being the traffic so
\* far: GetTokenWithClient drops e and returns (token, nil) (lines 40-41);
\* RefreshIfNeeded called alone returns e; TranslateWithClient and
\* TranslateArrayWithClient return e when it is an error (lines 95-97, 126-128)
\* and go on otherwise.
GateReturn(p, e, n) ==
    IF op[p].kind = "GetToken"
    THEN Return(p, e, Ret(ErrNil, "", <<>>), n, NoWire)
    ELSE IF op[p].kind = "RefreshIfNeeded" \/ e.kind # "nil"
    THEN Return(p, e, Ret(e, "", <<>>), n, NoWire)
    ELSE /\ pc' = [pc EXCEPT ![p] = "send"]
         /\ net' = [net EXCEPT ![p] = n]
         /\ UNCHANGED <<op, last>>

\* GetTokenWithClient (lines 38-42): a new Token, then RefreshIfNeeded on it.
\* The token of the model is the one the callers share, so a new one is made
\* while no caller is inside a call on the old one.
GetToken(p) ==
    /\ \A q \in Callers : pc[q] = "idle"
    /\ token' = ZeroToken
    /\ saved' = ZeroToken
    /\ prov' = ZeroProv
    /\ pc' = [pc EXCEPT ![p] = "gate"]
    /\ op' = [op EXCEPT ![p] = Call("GetToken", "", "", TRUE, <<>>)]
    /\ last' = NoLast
    /\ UNCHANGED <<reloadMutex, now, body, net>>

\* caller p enters RefreshIfNeeded, Translate[WithClient] or
\* TranslateArray[WithClient] on the shared token, with one of the calls of C;
\* the token is shared once GetTokenWithClient has returned it
Enter(p, C) ==
    /\ pc[p] = "idle"
    /\ \A q \in Callers : op[q].kind # "GetToken"
    /\ \E c \in C : op' = [op EXCEPT ![p] = c]
    /\ pc' = [pc EXCEPT ![p] = "gate"]
    /\ last' = NoLast
    /\ UNCHANGED <<token, reloadMutex, now, body, net, saved, prov>>

\* a gate without the early return of lines 50-52
R_CheckAlwaysRefreshes(p) ==
    /\ pc[p] = "gate"
    /\ pc' = [pc EXCEPT ![p] = "lock"]
    /\ UNCHANGED <<token, reloadMutex, now, op, body, net, saved, prov, last>>

\* RefreshIfNeeded, lines 50-52: the unlocked freshness check
R_Check(p) ==
    /\ pc[p] = "gate"
    /\ IF IsValid(token, now)
       THEN GateReturn(p, ErrNil, net[p])
       ELSE /\ pc' = [pc EXCEPT ![p] = "lock"]
            /\ UNCHANGED <<op, net, last>>
    /\ UNCHANGED <<token, reloadMutex, now, body, saved, prov>>

\* line 54: token.reloadMutex.Lock()
R_Lock(p) ==
    /\ pc[p] = "lock"
    /\ reloadMutex = 0
    /\ reloadMutex' = p
    /\ saved' = token
    /\ pc' = [pc EXCEPT ![p] = "post"]
    /\ UNCHANGED <<token, now, op, body, net, prov, last>>

\* lines 58-76: the POST to the auth endpoint, the read of the body and the
\* status check, the auth endpoint answering with one of the responses Rs; every
\* return unlocks (the deferred Unlock of line 55)
R_Post(p, Rs) ==
    /\ pc[p] = "post"
    /\ LET n == [net[p] EXCEPT !.auth = @ + 1]
       IN \E r \in Rs :
             IF r.transport \/ r.readErr \/ r.status >= 400
             THEN /\ GateReturn(p, IF r.transport THEN Err("transport", 0, "")
                                   ELSE IF r.readErr THEN Err("read", 0, "")
                                   ELSE Err("status", r.status, r.body), n)
                  /\ reloadMutex' = 0
                  /\ saved' = token
                  /\ UNCHANGED body
             ELSE /\ pc' = [pc EXCEPT ![p] = "unmarshal"]
                  /\ body' = [body EXCEPT ![p] = r.body]
                  /\ net' = [net EXCEPT ![p] = n]
                  /\ UNCHANGED <<op, last, reloadMutex, saved>>
    /\ UNCHANGED <<token, now, prov>>

\* line 77: json.Unmarshal(respBody, &token), its error dropped.  The JSON value
\* null sets the local pointer to nil, line 78 then panics on it and the panic
\* unwinds the call (the deferred Unlock runs).
R_Unmarshal(p) ==
    /\ pc[p] = "unmarshal"
    /\ body' = [body EXCEPT ![p] = ""]
    /\ LET j == JsonDecode(body[p])
       IN IF j.valid /\ j.null
          THEN /\ Return(p, Err("panic", 0, ""), Ret(Err("panic", 0, ""), "", <<>>),
                         net[p], NoWire)
               /\ reloadMutex' = 0
               /\ saved' = token
               /\ UNCHANGED <<token, prov>>
          ELSE /\ token' = Unmarshal(token, body[p])
               /\ prov' = [prov EXCEPT
                     !.AccessToken = IF j.valid /\ j.hasAccess THEN "pending" ELSE @,
                     !.ExpiresIn = IF j.valid /\ j.hasExpires THEN "pending" ELSE @]
               /\ pc' = [pc EXCEPT ![p] = "stamp"]
               /\ UNCHANGED <<op, net, last, reloadMutex, saved>>
    /\ UNCHANGED now

\* line 78: token.Timestamp = time.Now()
R_Stamp(p) ==
    /\ pc[p] = "stamp"
    /\ token' = [token EXCEPT !.Timestamp = now]
    /\ prov' = [prov EXCEPT !.Timestamp = "pending"]
    /\ pc' = [pc EXCEPT ![p] = "parse"]
    /\ UNCHANGED <<reloadMutex, now, op, body, net, saved, last>>

\* lines 80-88: expires_in parsed, the validity duration set, return
R_Parse(p) ==
    /\ pc[p] = "parse"
    /\ LET n == ParseInt(token.ExpiresIn)
       IN IF ~n.ok
          THEN /\ GateReturn(p, Err("expires_in", 0, ""), net[p])
               /\ prov' = Settle(prov, FALSE)
               /\ UNCHANGED token
          ELSE /\ token' = [token EXCEPT !.expiresInDuration = ToDuration(n.val)]
               /\ prov' = Settle([prov EXCEPT !.expiresInDuration = "pending"], TRUE)
               /\ GateReturn(p, ErrNil, net[p])
    /\ reloadMutex' = 0
    /\ saved' = token'
    /\ UNCHANGED <<now, body>>

\* what TranslateWithClient makes of response r (lines 109-119): a transport
\* error leaves resp nil and line 110 panics; the read error of line 111 is
\* overwritten; the body is decoded before the status is looked at
TranslateResult(r) ==
    LET x == XmlString(r.body)
    IN IF r.transport THEN Ret(Err("panic", 0, ""), "", <<>>)
       ELSE IF ~x.ok THEN Ret(Err("xml", 0, ""), "", <<>>)
       ELSE IF r.status >= 400 THEN Ret(Err("status", r.status, r.body), "", <<>>)
       ELSE Ret(ErrNil, x.str, <<>>)

\* TranslateWithClient, lines 98-119
T_Translate(p) ==
    /\ pc[p] = "send"
    /\ op[p].kind = "Translate"
    /\ IF op[p].text = ""
       THEN Return(p, ErrNil, Ret(Err("validation", 0, "text"), "", <<>>), net[p], NoWire)
       ELSE IF op[p].to = ""
       THEN Return(p, ErrNil, Ret(Err("validation", 0, "to"), "", <<>>), net[p], NoWire)
       ELSE \E r \in TranslateResponses :
               Return(p, ErrNil, TranslateResult(r), [net[p] EXCEPT !.api = @ + 1],
                      Wire(<<>>, r))
    /\ UNCHANGED <<token, reloadMutex, now, body, saved, prov>>

\* what TranslateArrayWithClient makes of response r (lines 166-198)
TranslateArrayResult(r) ==
    LET x == XmlResponse(r.body)
    IN IF r.transport THEN Ret(Err("panic", 0, ""), "", <<>>)
       ELSE IF r.readErr THEN Ret(Err("read", 0, ""), "", <<>>)
       ELSE IF r.status >= 400 THEN Ret(Err("status", r.status, r.body), "", <<>>)
       ELSE IF ~x.ok THEN Ret(Err("xml", 0, ""), "", <<>>)
       ELSE Ret(ErrNil, "", x.list)

\* TranslateArrayWithClient, lines 129-198
T_TranslateArray(p) ==
    /\ pc[p] = "send"
    /\ op[p].kind = "TranslateArray"
    /\ IF op[p].textsNil
       THEN Return(p, ErrNil, Ret(Err("validation", 0, "texts"), "", <<>>), net[p],
                   NoWire)
       ELSE IF op[p].to = ""
       THEN Return(p, ErrNil, Ret(Err("validation", 0, "to"), "", <<>>), net[p], NoWire)
       ELSE \E r \in TranslateArrayResponses :
               Return(p, ErrNil, TranslateArrayResult(r),
                      [net[p] EXCEPT !.api = @ + 1],
                      Wire(MsStrings(op[p].texts), r))
    /\ UNCHANGED <<token, reloadMutex, now, body, saved, prov>>

\* callers sharing the token
Next ==
    \/ Tick
    \/ \E p \in Callers : GetToken(p)
    \/ \E p \in Callers : Enter(p, SharedCalls)
    \/ \E p \in Callers : R_Check(p)
    \/ \E p \in Callers : R_Lock(p)
    \/ \E p \in Callers : R_Post(p, SharedAuthResponses)
    \/ \E p \in Callers : R_Unmarshal(p)
    \/ \E p \in Callers : R_Stamp(p)
    \/ \E p \in Callers : R_Parse(p)
    \/ \E p \in Callers : T_Translate(p)

Spec == Init /\ [][Next]_vars

\* one caller with the token to itself, making every call
NextOne ==
    \/ Tick
    \/ GetToken(1)
    \/ Enter(1, Calls)
    \/ R_Check(1)
    \/ R_Lock(1)
    \/ R_Post(1, AuthResponses)
    \/ R_Unmarshal(1)
    \/ R_Stamp(1)
    \/ R_Parse(1)
    \/ T_Translate(1)
    \/ T_TranslateArray(1)

SpecOne == Init /\ [][NextOne]_vars

---------------------------------------------------------------------------
(* Claims *)

\* "fresh": a validity duration > 0 and less time than it since Timestamp
Fresh(t, clock) ==
    /\ t.expiresInDuration > 0
    /\ t.Timestamp # ZeroTime
    /\ (clock - t.Timestamp) * Second < t.expiresInDuration

\* caller p is inside RefreshIfNeeded
InGate(p) == pc[p] \in {"gate", "lock", "post", "unmarshal", "stamp", "parse"}

\* C1: when callers that share a stale token go through the refresh gate
\* together and the auth endpoint answers successfully, one POST is issued in
\* all: a caller that gets the lock after another one's successful acquisition
\* sees the now-fresh token and returns, so no caller stands at the POST of
\* line 64, lock in hand, while the token is fresh.
C1_OnePostPerBurst ==
    \A p \in Callers : pc[p] = "post" => ~Fresh(token, now)

\* C2: GetToken / GetTokenWithClient returns a non-nil error, the one of the
\* failed auth request (transport error, or status >= 400 with the body),
\* whenever the auth request fails.
C2_GetTokenReportsFailure ==
    (last.op.kind = "GetToken" /\ last.gateErr.kind \in {"transport", "status"})
        => (last.ret.err.kind # "nil" /\ last.ret.err = last.gateErr)

\* C3: a refresh that fails (transport error, status >= 400, body read error,
\* expires_in no decimal integer) returns the error and leaves AccessToken,
\* ExpiresIn, Timestamp and the validity duration as they were when it began.
C3_FailedRefreshKeepsToken ==
    [][\A p \in Callers :
          (InGate(p) /\ ~InGate(p)' /\ last'.caller = p
           /\ last'.gateErr.kind \in {"transport", "status", "read", "expires_in"})
            => (token' = saved /\ ~Fresh(token', now'))]_vars

MissingArgument(c) ==
    \/ c.kind = "Translate" /\ (c.text = "" \/ c.to = "")
    \/ c.kind = "TranslateArray" /\ (c.textsNil \/ c.to = "")

\* C4: a translation call with a missing required argument fails with a
\* validation error and sends no HTTP request, neither the auth POST nor the
\* translation request, whatever the state of the token.
C4_ValidationBeforeAnyRequest ==
    MissingArgument(last.op)
        => (last.ret.err.kind = "validation" /\ last.net = NoNet)

\* C5: RefreshIfNeeded entered with a fresh token returns nil (to its caller, or
\* on to the translation request) without a network request, without taking the
\* lock and without changing a field of the token.
C5_FreshIsNoOp ==
    [][\A p \in Callers :
          (pc[p] = "gate" /\ pc'[p] # "gate" /\ Fresh(token, now))
            => /\ token' = token
               /\ reloadMutex' = reloadMutex
               /\ \/ pc'[p] = "send" /\ net'[p] = net[p]
                  \/ /\ pc'[p] = "idle"
                     /\ last'.caller = p
                     /\ last'.gateErr = ErrNil
                     /\ last'.ret.err = ErrNil
                     /\ last'.net = net[p]]_vars

\* C5's case: a RefreshIfNeeded call has returned nil without any request, the
\* token being fresh, while another caller holds the lock
C5_Witness ==
    /\ last.op.kind = "RefreshIfNeeded"
    /\ last.ret.err = ErrNil
    /\ last.net = NoNet
    /\ Fresh(token, now)
    /\ reloadMutex \notin {0, last.caller}

RECURSIVE DecimalValue(_, _)
DecimalValue(s, acc) ==
    IF s = <<>> THEN acc
    ELSE DecimalValue(Tail(s), 10 * acc + (CHOOSE d \in 0..9 : Digits[d + 1] = Head(s)))

\* s is the decimal numeral of a positive integer
PositiveDecimal(s) ==
    /\ s # <<>>
    /\ \A i \in DOMAIN s : \E d \in 0..9 : Digits[d + 1] = s[i]
    /\ DecimalValue(s, 0) > 0

\* C6: after a successful acquisition whose body carried expires_in = d, a
\* positive integer, IsValid() is true at every instant less than d seconds
\* after the recorded Timestamp and false from d seconds on; a token that was
\* never successfully issued is never valid.
C6_ValidForExpiresIn ==
    /\ (/\ prov.ExpiresIn = "ok" /\ prov.Timestamp = "ok"
        /\ prov.expiresInDuration = "ok"
        /\ PositiveDecimal(token.ExpiresIn))
        => (IsValid(token, now)
              <=> now - token.Timestamp < DecimalValue(token.ExpiresIn, 0))
    /\ prov.expiresInDuration = "zero" => ~IsValid(token, now)

\* C6 for the expires_in whose duration fits time.Duration
C6_WithinRange ==
    (/\ prov.ExpiresIn = "ok" /\ prov.Timestamp = "ok"
     /\ prov.expiresInDuration = "ok"
     /\ PositiveDecimal(token.ExpiresIn)
     /\ DecimalValue(token.ExpiresIn, 0) * Second <= MaxInt)
        => (IsValid(token, now)
              <=> now - token.Timestamp < DecimalValue(token.ExpiresIn, 0))

\* C7: a single Translate answered with a non-2xx status returns an error that
\* carries the status and the body, and no translated result, whether or not
\* the body parses as an XML string.
C7_Non2xxIsStatusError ==
    (/\ last.op.kind = "Translate" /\ last.net.api = 1
     /\ last.wire.status # 0 /\ last.wire.status \notin 200..299)
        => /\ last.ret.err = Err("status", last.wire.status, last.wire.resp)
           /\ last.ret.str = ""

\* the positions of the TranslateArrayResponse elements of a response body
ResponseElements(raw) ==
    LET ch == XmlParse(raw).children
    IN {i \in DOMAIN ch : ch[i].name = "TranslateArrayResponse"}

\* the k-th of them
ResponseElement(raw, k) ==
    LET ch == XmlParse(raw).children
        at == CHOOSE i \in ResponseElements(raw) :
                 Cardinality({j \in ResponseElements(raw) : j <= i}) = k
    IN ch[at]

\* C8: a successful TranslateArray has sent its texts in one request, in input
\* order, and returns one entry per TranslateArrayResponse element of the
\* response, the i-th being the TranslatedText of the i-th element; a failed
\* call returns no results.
C8_ArrayResultsInOrder ==
    last.op.kind = "TranslateArray" =>
        IF last.ret.err = ErrNil
        THEN /\ last.net.api = 1
             /\ Len(last.wire.sent) = Len(last.op.texts)
             /\ \A i \in DOMAIN last.op.texts :
                   last.wire.sent[i].String = last.op.texts[i]
             /\ Len(last.ret.list) = Cardinality(ResponseElements(last.wire.resp))
             /\ \A k \in DOMAIN last.ret.list :
                   last.ret.list[k] = ResponseElement(last.wire.resp, k).text
        ELSE last.ret.list = <<>>

\* C8's case: ["hello","world"] answered with bonjour, monde
C8_Witness ==
    /\ last.op.kind = "TranslateArray"
    /\ last.op.texts = <<"hello", "world">>
    /\ last.ret.err = ErrNil
    /\ last.ret.list = <<"bonjour", "monde">>

\* C9: whenever IsValid() is true (and no refresh is under way), AccessToken,
\* Timestamp and the validity duration all come from the most recent acquisition
\* that returned no error.
C9_ValidTokenFromOneAcquisition ==
    (reloadMutex = 0 /\ IsValid(token, now))
        => /\ prov.AccessToken = "ok"
           /\ prov.Timestamp = "ok"
           /\ prov.expiresInDuration = "ok"

\* caller w has written a field of the token in its refresh and has a write
\* still to make: Timestamp (line 78) after json.Unmarshal wrote, or the validity
\* duration (line 84) after Timestamp
MidWrite(w) ==
    \/ pc[w] = "stamp" /\ "pending" \in {prov.AccessToken, prov.ExpiresIn}
    \/ pc[w] = "parse" /\ ParseInt(token.ExpiresIn).ok

\* caller r reads the token in this step: the freshness check of line 50, or the
\* AccessToken of the Authorization header (line 107)
ReadStep(r) ==
    \/ pc[r] = "gate" /\ pc'[r] # "gate"
    \/ pc[r] = "send" /\ pc'[r] = "idle" /\ last'.net.api = 1

\* C10: every write to the token is made by the holder of the refresh lock,
\* and no other caller reads the token between the first and the last write of
\* a refresh.
C10_NoHalfUpdatedRead ==
    [][/\ (token' # token /\ \A p \in Callers : op'[p].kind # "GetToken")
            => (reloadMutex # 0 /\ InGate(reloadMutex))
       /\ \A r, w \in Callers : (r # w /\ MidWrite(w)) => ~ReadStep(r)]_vars

====
